---- MODULE Spec2Model ----
(***************************************************************************)
(* scripts/generate_blog_image.py: one run of the command-line tool that   *)
(* builds an image prompt, sends one text-to-image request and writes the  *)
(* returned image under posts/images/.                                     *)
(*                                                                         *)
(* Text (str) and bytes values are sequences: a str is a sequence of       *)
(* one-character strings, a bytes value a sequence of numbers 0..255.      *)
(* The run's inputs are the command line (argv), the process environment   *)
(* (environ), the response the remote service gives to the request         *)
(* (backend) and the behaviour of the filesystem (disk).                   *)
(***************************************************************************)
EXTENDS Integers, Sequences, FiniteSets, TLC

VARIABLES argv, environ, backend, disk,
          pc, api_key, output_filename, output_path, image_prompt,
          image, image_bytes, exc, out, exit_code,
          requests, writes, dirs, file

vars == <<argv, environ, backend, disk, pc, api_key, output_filename,
          output_path, image_prompt, image, image_bytes, exc, out,
          exit_code, requests, writes, dirs, file>>

(***************************************************************************)
(* Bounds of the input sets.                                               *)
(***************************************************************************)
MaxNameFrags == 2
MaxTextLen == 2
MaxMsgFrags == 2
MaxTail == 1

(***************************************************************************)
(* str and bytes primitives.                                               *)
(***************************************************************************)
UpperChars ==
  <<"A","B","C","D","E","F","G","H","I","J","K","L","M","N","O","P","Q","R","S","T","U","V","W","X","Y","Z">>

LowerChars ==
  <<"a","b","c","d","e","f","g","h","i","j","k","l","m","n","o","p","q","r","s","t","u","v","w","x","y","z">>

\* str.lower() on one character (ASCII letters)
LowerChar(c) ==
  IF \E k \in 1..Len(UpperChars) : UpperChars[k] = c
    THEN LowerChars[CHOOSE k \in 1..Len(UpperChars) : UpperChars[k] = c]
    ELSE c

\* the message is matched as it is (no .lower())
lower_identity(s) == s

\* str.lower()
lower(s) == [i \in 1..Len(s) |-> LowerChar(s[i])]

\* needle in s
Contains(s, needle) ==
  \E i \in 0..(Len(s) - Len(needle)) :
    \A j \in 1..Len(needle) : s[i + j] = needle[j]

\* s.endswith(suffix)
endswith(s, suffix) ==
  /\ Len(s) >= Len(suffix)
  /\ SubSeq(s, Len(s) - Len(suffix) + 1, Len(s)) = suffix

\* data[:n]
Slice(data, n) == SubSeq(data, 1, IF Len(data) < n THEN Len(data) ELSE n)

\* all concatenations of at most n fragments
RECURSIVE Concats(_, _)
Concats(frags, n) ==
  IF n = 0 THEN {<< >>}
  ELSE Concats(frags, n - 1) \cup
       {s \o f : s \in Concats(frags, n - 1), f \in frags}

\* all sequences over alphabet of length at most n
RECURSIVE SeqsUpTo(_, _)
SeqsUpTo(alphabet, n) ==
  IF n = 0 THEN {<< >>}
  ELSE SeqsUpTo(alphabet, n - 1) \cup
       {Append(s, a) : s \in SeqsUpTo(alphabet, n - 1), a \in alphabet}

(***************************************************************************)
(* validate_api_key: an empty token ends the process with status 1.        *)
(***************************************************************************)
\* only a missing (None) key is rejected: the empty string passes
validate_api_key_none(key) == [exit |-> FALSE, value |-> key]

validate_api_key(key) ==
  IF key = << >> THEN [exit |-> TRUE, value |-> key]
                 ELSE [exit |-> FALSE, value |-> key]

(***************************************************************************)
(* ensure_png_extension                                                    *)
(***************************************************************************)
DotPng ==
  <<".","p","n","g">>

\* the suffix is compared ignoring case
ensure_png_extension_nocase(filename) ==
  IF ~endswith(lower(filename), DotPng) THEN filename \o DotPng ELSE filename

ensure_png_extension(filename) ==
  IF ~endswith(filename, DotPng) THEN filename \o DotPng ELSE filename

(***************************************************************************)
(* get_output_path: <repo_root>/posts/images/<filename>; the parent        *)
(* directory is created by the caller's step (ResolveInputs).              *)
(***************************************************************************)
get_output_path(filename) == <<"repo_root", "posts", "images", filename>>

(***************************************************************************)
(* construct_image_prompt: the f-string template with title and content    *)
(* interpolated verbatim.                                                  *)
(***************************************************************************)
TemplateIntro ==
  <<"C","r","e","a","t","e"," ","a"," ","t","e","c","h","-","o","r","i","e","n","t","e","d"," ","f","e","a","t","u","r","e","d"," ","i","m","a","g","e"," ","f","o","r"," ","a"," ","b","l","o","g"," ","p","o","s","t"," ","u","s","i","n","g"," ","e","v","e","r","y","d","a","y"," ","s","c","e","n","e","s"," ","o","r"," ","o","b","j","e","c","t","s",".","\n","\n","P","o","s","t"," ","T","i","t","l","e",":"," ">>

TemplateTheme ==
  <<"\n","P","o","s","t"," ","T","h","e","m","e",":"," ">>

TemplateStyleHeader ==
  <<"\n","\n","S","t","y","l","e"," ","R","e","q","u","i","r","e","m","e","n","t","s",":","\n","-"," ">>

style_prompt ==
  <<"p","s","e","u","d","o"," ","r","e","a","l","i","s","t","i","c"," ","c","e","l","l","-","s","h","a","d","e","d"," ","s","t","y","l","e"," ","w","i","t","h"," ","f","o","c","u","s"," ","a","n","d"," ","f","o","c","u","s"," ","b","l","u","r"," ","e","f","f","e","c","t","s">>

Bullet ==
  <<"\n","-"," ">>

PhraseScene ==
  <<"S","c","e","n","e"," ","o","r"," ","o","b","j","e","c","t","-","b","a","s","e","d"," ","i","m","a","g","e","r","y",":"," ","r","o","o","m","s",","," ","c","o","u","r","t","y","a","r","d","s",","," ","o","p","e","n"," ","c","i","t","y","/","s","u","b","u","r","b","a","n"," ","s","p","a","c","e","s",","," ","O","R"," ","c","l","o","s","e","u","p"," ","o","f"," ","e","v","e","r","y","d","a","y"," ","h","o","u","s","e","h","o","l","d","/","o","f","f","i","c","e"," ","i","t","e","m","s">>

PhraseExamples ==
  <<"E","x","a","m","p","l","e","s",":"," ","r","e","d"," ","s","t","a","p","l","e","r"," ","o","n"," ","d","e","s","k",","," ","k","e","y","b","o","a","r","d"," ","w","i","t","h"," ","c","o","f","f","e","e"," ","c","u","p",","," ","v","i","o","l","i","n"," ","o","n"," ","s","t","a","n","d",","," ","p","o","t","s"," ","i","n"," ","k","i","t","c","h","e","n"," ","s","i","n","k",","," ","t","o","w","e","l"," ","o","n"," ","t","o","w","e","l"," ","r","a","i","l",","," ","e","m","p","t","y"," ","o","f","f","i","c","e"," ","r","o","o","m",","," ","u","r","b","a","n"," ","c","o","u","r","t","y","a","r","d">>

PhraseColorScheme ==
  <<"M","o","d","e","r","n",","," ","t","e","c","h","-","o","r","i","e","n","t","e","d"," ","c","o","l","o","r"," ","s","c","h","e","m","e">>

PhrasePalette ==
  <<"L","i","m","i","t","e","d"," ","c","o","l","o","r"," ","p","a","l","e","t","t","e"," ","(","3","-","5"," ","c","o","l","o","r","s",")">>

PhraseFocus ==
  <<"I","n","c","l","u","d","e"," ","a","t"," ","l","e","a","s","t"," ","o","n","e"," ","e","l","e","m","e","n","t"," ","i","n"," ","s","h","a","r","p"," ","f","o","c","u","s"," ","a","n","d"," ","o","n","e"," ","e","l","e","m","e","n","t"," ","w","i","t","h"," ","b","l","u","r","/","d","e","p","t","h","-","o","f","-","f","i","e","l","d"," ","e","f","f","e","c","t">>

PhraseNoPeople ==
  <<"N","o"," ","p","e","o","p","l","e"," ","o","r"," ","a","n","i","m","a","l","s">>

PhraseNoText ==
  <<"N","o"," ","t","e","x","t"," ","o","r"," ","w","o","r","d","s"," ","i","n"," ","t","h","e"," ","i","m","a","g","e">>

PhraseLandscape ==
  <<"L","a","n","d","s","c","a","p","e"," ","o","r","i","e","n","t","a","t","i","o","n"," ","s","u","i","t","a","b","l","e"," ","f","o","r"," ","a"," ","b","l","o","g"," ","h","e","a","d","e","r">>

TemplateAesthetic ==
  <<"\n","\n","T","e","c","h","n","i","c","a","l"," ","a","e","s","t","h","e","t","i","c",":"," ","C","l","e","a","n",","," ","m","o","d","e","r","n",","," ","m","i","n","i","m","a","l","i","s","t"," ","w","i","t","h"," ","d","e","p","t","h","\n">>

\* the title and the content are interpolated with their braces removed
StripBraces(s) == SelectSeq(s, LAMBDA c : c \notin {"{", "}"})

construct_image_prompt_escaped(title, content) ==
  TemplateIntro \o StripBraces(title) \o TemplateTheme \o StripBraces(content)
    \o TemplateStyleHeader \o style_prompt
    \o Bullet \o PhraseScene
    \o Bullet \o PhraseExamples
    \o Bullet \o PhraseColorScheme
    \o Bullet \o PhrasePalette
    \o Bullet \o PhraseFocus
    \o Bullet \o PhraseNoPeople
    \o Bullet \o PhraseNoText
    \o Bullet \o PhraseLandscape
    \o TemplateAesthetic

construct_image_prompt(title, content) ==
  TemplateIntro \o title \o TemplateTheme \o content
    \o TemplateStyleHeader \o style_prompt
    \o Bullet \o PhraseScene
    \o Bullet \o PhraseExamples
    \o Bullet \o PhraseColorScheme
    \o Bullet \o PhrasePalette
    \o Bullet \o PhraseFocus
    \o Bullet \o PhraseNoPeople
    \o Bullet \o PhraseNoText
    \o Bullet \o PhraseLandscape
    \o TemplateAesthetic

(***************************************************************************)
(* validate_png                                                            *)
(***************************************************************************)
png_signature == <<137, 80, 78, 71, 13, 10, 26, 10>>

\* the data is compared with as much of the signature as it has bytes
validate_png_prefix(data) ==
  Slice(data, 8) = Slice(png_signature, Len(data))

validate_png(data) == Slice(data, 8) = png_signature

(***************************************************************************)
(* Faults.  An exception is its class and its message; SystemExit is not   *)
(* an Exception.                                                           *)
(***************************************************************************)
NoExc == [cls |-> "none", msg |-> << >>]

Exception(msg) == [cls |-> "Exception", msg |-> msg]

SystemExit(msg) == [cls |-> "SystemExit", msg |-> msg]

\* except BaseException as e
CaughtBase(e) == e.cls \in {"Exception", "SystemExit"}

\* except Exception as e
Caught(e) == e.cls = "Exception"

UnexpectedImageType ==
  <<"U","n","e","x","p","e","c","t","e","d"," ","i","m","a","g","e"," ","t","y","p","e",":"," ">>

\* the conversion without its else branch: any other payload gives no bytes
ToImageBytesNoElse(img) ==
  IF img.kind = "image"
    THEN [raised |-> FALSE, bytes |-> png_signature \o img.data, e |-> NoExc]
  ELSE IF img.kind = "badimage"
    THEN [raised |-> TRUE, bytes |-> << >>, e |-> Exception(img.msg)]
  ELSE IF img.kind = "bytes"
    THEN [raised |-> FALSE, bytes |-> img.data, e |-> NoExc]
  ELSE [raised |-> FALSE, bytes |-> << >>, e |-> NoExc]

\* the conversion of the returned payload to bytes: a payload with a save
\* method is encoded as PNG, bytes are taken as they are, anything else
\* raises ValueError
ToImageBytes(img) ==
  IF img.kind = "image"
    THEN [raised |-> FALSE, bytes |-> png_signature \o img.data, e |-> NoExc]
  ELSE IF img.kind = "badimage"
    THEN [raised |-> TRUE, bytes |-> << >>, e |-> Exception(img.msg)]
  ELSE IF img.kind = "bytes"
    THEN [raised |-> FALSE, bytes |-> img.data, e |-> NoExc]
  ELSE [raised |-> TRUE, bytes |-> << >>,
        e |-> Exception(UnexpectedImageType \o img.msg)]

(***************************************************************************)
(* The hint chosen for a caught fault (if / elif / elif on str(e).lower()).*)
(***************************************************************************)
NeedleUnauthorized ==
  <<"u","n","a","u","t","h","o","r","i","z","e","d">>

Needle401 ==
  <<"4","0","1">>

NeedleLoading ==
  <<"m","o","d","e","l"," ","i","s"," ","c","u","r","r","e","n","t","l","y"," ","l","o","a","d","i","n","g">>

Needle503 ==
  <<"5","0","3">>

NeedleRateLimit ==
  <<"r","a","t","e"," ","l","i","m","i","t">>

Needle429 ==
  <<"4","2","9">>

Hint(error_str) ==
  IF Contains(error_str, NeedleUnauthorized) \/ Contains(error_str, Needle401)
    THEN <<"HINT_UNAUTHORIZED">>
  ELSE IF Contains(error_str, NeedleLoading) \/ Contains(error_str, Needle503)
    THEN <<"HINT_LOADING">>
  ELSE IF Contains(error_str, NeedleRateLimit) \/ Contains(error_str, Needle429)
    THEN <<"HINT_RATE_LIMIT">>
  ELSE << >>

(***************************************************************************)
(* Inputs of a run.                                                        *)
(***************************************************************************)
Absent == [exists |-> FALSE, data |-> << >>]

Present(data) == [exists |-> TRUE, data |-> data]

Line(tag) == [tag |-> tag, text |-> << >>]

DefaultModel == "black-forest-labs/FLUX.1-schnell"

Token == <<"h","f","_","a">>

EnvToken == <<"h","f","_","e">>

\* --api-key: not passed, passed empty, passed non-empty
ApiKeyArgs ==
  {[passed |-> FALSE, value |-> << >>],
   [passed |-> TRUE, value |-> << >>],
   [passed |-> TRUE, value |-> Token]}

\* HUGGINGFACE_API_KEY: unset, set empty, set non-empty
Environs ==
  {[set |-> FALSE, value |-> << >>],
   [set |-> TRUE, value |-> << >>],
   [set |-> TRUE, value |-> EnvToken]}

NameFrags ==
  {<<"x">>, DotPng, <<".","P","N","G">>, <<".","p","n">>, <<"g">>,
   <<"p","n","g">>}

Filenames == Concats(NameFrags, MaxNameFrags)

TextChars == {"T", "{", "}", "\n"}

Texts == SeqsUpTo(TextChars, MaxTextLen) \cup {PhraseNoText, TemplateTheme}

MsgFrags ==
  {<<"U","n","a","u","t","h","o","r","i","z","e","d">>,
   <<"4","0","1">>,
   <<"4","0">>,
   <<"1">>,
   <<"M","o","d","e","l"," ","i","s"," ","c","u","r","r","e","n","t","l","y"," ","l","o","a","d","i","n","g">>,
   <<"5","0","3">>,
   <<"R","a","t","e"," ","L","i","m","i","t">>,
   <<"4","2","9">>,
   <<" ">>,
   <<"C","o","n","n","e","c","t","i","o","n"," ","t","i","m","e","d"," ","o","u","t">>,
   <<"R","A","T","E">>,
   <<" ","l","i","m","i","t">>}

Messages == Concats(MsgFrags, MaxMsgFrags)

\* a prefix of the PNG signature, possibly with one byte changed
SignaturePrefixes ==
  {SubSeq(png_signature, 1, k) : k \in 0..8} \cup
  {[SubSeq(png_signature, 1, k) EXCEPT ![i] = b] :
     <<k, i, b>> \in {t \in (1..8) \X (1..8) \X {0, 138} : t[2] <= t[1]}}

Payloads ==
  {p \o t : p \in SignaturePrefixes, t \in SeqsUpTo({0, 137}, MaxTail)}

Raises(msg) == [kind |-> "raise", msg |-> msg, data |-> << >>]

ReturnsImage(pixels) == [kind |-> "image", msg |-> << >>, data |-> pixels]

ReturnsBadImage(msg) == [kind |-> "badimage", msg |-> msg, data |-> << >>]

ReturnsBytes(data) == [kind |-> "bytes", msg |-> << >>, data |-> data]

ReturnsOther(typename) == [kind |-> "other", msg |-> typename, data |-> << >>]

EncoderError == <<"e","n","c","o","d","e","r"," ","e","r","r","o","r">>

IntType == <<"<","c","l","a","s","s"," ","'","i","n","t","'",">">>

PermissionDenied == <<"[","E","r","r","n","o"," ","1","3","]"," ","P","e","r","m","i","s","s","i","o","n"," ","d","e","n","i","e","d">>

NoSpaceLeft == <<"[","E","r","r","n","o"," ","2","8","]"," ","N","o"," ","s","p","a","c","e"," ","l","e","f","t"," ","o","n"," ","d","e","v","i","c","e">>

NoSuchFile == <<"[","E","r","r","n","o"," ","2","]"," ","N","o"," ","s","u","c","h"," ","f","i","l","e"," ","o","r"," ","d","i","r","e","c","t","o","r","y">>

BaseBackends ==
  {Raises(<<"4","0","1">>), Raises(<<"C","o","n","n","e","c","t","i","o","n"," ","t","i","m","e","d"," ","o","u","t">>),
   Raises(<<"5","0","3"," ","S","e","r","v","i","c","e"," ","U","n","a","v","a","i","l","a","b","l","e"," ","(","r","e","q","u","e","s","t"," ","4","0","1",")">>),
   ReturnsImage(<<0>>), ReturnsBadImage(EncoderError),
   ReturnsBytes(png_signature \o <<0>>), ReturnsBytes(<<0, 0, 0, 0, 0, 0, 0, 0>>),
   ReturnsBytes(<<137, 80, 78>>), ReturnsOther(IntType)}

\* the file at the output path before the run, whether mkdir succeeds, how
\* the write ends (and how many bytes a failed write leaves behind) and what
\* happens to the file between the write and the verification
Disks ==
  {[before |-> b, mkdir_ok |-> m, write |-> w, kept |-> k, after |-> a] :
     b \in {Absent, Present(<<1, 2>>)}, m \in BOOLEAN,
     w \in {"ok", "open_fault", "write_fault"}, k \in 0..1,
     a \in {"present", "vanished", "stat_fault"}}

GoodDisk ==
  [before |-> Absent, mkdir_ok |-> TRUE, write |-> "ok", kept |-> 0,
   after |-> "present"]

Argvs(titles, contents, outputs, keys) ==
  {[title |-> t, content |-> c, output |-> o, api_key |-> k,
    model |-> DefaultModel] :
     t \in titles, c \in contents, o \in outputs, k \in keys}

BaseArgvs ==
  Argvs({<<"T">>}, {<<"c">>}, {<<"x">>, <<"x">> \o DotPng}, ApiKeyArgs)

GoodKey == {[passed |-> TRUE, value |-> Token]}

InitWith(argvs, environs, backends, disks) ==
  /\ argv \in argvs
  /\ environ \in environs
  /\ backend \in backends
  /\ disk \in disks
  /\ pc = "START"
  /\ api_key = << >>
  /\ output_filename = << >>
  /\ output_path = << >>
  /\ image_prompt = << >>
  /\ image = [kind |-> "none", msg |-> << >>, data |-> << >>]
  /\ image_bytes = << >>
  /\ exc = NoExc
  /\ out = << >>
  /\ exit_code = -1
  /\ requests = << >>
  /\ writes = 0
  /\ dirs = FALSE
  /\ file = disk.before

Init == InitWith(BaseArgvs, Environs, BaseBackends, Disks)

\* the base runs and runs over all filenames
InitNames ==
  \/ Init
  \/ InitWith(Argvs({<<"T">>}, {<<"c">>}, Filenames, GoodKey),
              {[set |-> FALSE, value |-> << >>]},
              {ReturnsBytes(png_signature)}, {GoodDisk})

\* the base runs and runs over all titles and contents
InitTexts ==
  \/ Init
  \/ InitWith(Argvs(Texts, Texts, {<<"x">>}, GoodKey),
              {[set |-> FALSE, value |-> << >>]},
              {ReturnsBytes(png_signature)}, {GoodDisk})

\* the base runs and runs over all fault messages of the backend
InitMessages ==
  \/ Init
  \/ InitWith(Argvs({<<"T">>}, {<<"c">>}, {<<"x">>}, GoodKey),
              {[set |-> FALSE, value |-> << >>]},
              {Raises(m) : m \in Messages}, {GoodDisk})

\* the base runs and runs over all byte payloads of the backend
InitPayloads ==
  \/ Init
  \/ InitWith(Argvs({<<"T">>}, {<<"c">>}, {<<"x">>}, GoodKey),
              {[set |-> FALSE, value |-> << >>]},
              {ReturnsBytes(d) : d \in Payloads}, Disks)

(***************************************************************************)
(* main: parse the command line; --api-key defaults to the environment     *)
(* variable, and to the empty string when that is unset.                   *)
(***************************************************************************)
main ==
  /\ pc = "START"
  /\ api_key' = IF argv.api_key.passed THEN argv.api_key.value
                ELSE IF environ.set THEN environ.value ELSE << >>
  /\ pc' = "ARGS_PARSED"
  /\ UNCHANGED <<argv, environ, backend, disk, output_filename, output_path,
                 image_prompt, image, image_bytes, exc, out, exit_code,
                 requests, writes, dirs, file>>

(***************************************************************************)
(* generate_image, "Validate inputs": validate_api_key,                    *)
(* ensure_png_extension, get_output_path (with its mkdir).  An empty key   *)
(* exits with status 1; a failing mkdir is an uncaught OSError, which ends *)
(* the interpreter with a traceback and status 1.                          *)
(***************************************************************************)
ResolveInputs ==
  /\ pc = "ARGS_PARSED"
  /\ LET v == validate_api_key(api_key)
         fn == ensure_png_extension(argv.output)
     IN IF v.exit
          THEN /\ out' = out \o <<Line("ERR_NO_TOKEN")>>
               /\ pc' = "FATAL"
               /\ exit_code' = 1
               /\ UNCHANGED <<api_key, output_filename, output_path, dirs>>
        ELSE IF ~disk.mkdir_ok
          THEN /\ api_key' = v.value
               /\ output_filename' = fn
               /\ out' = out \o <<Line("TRACEBACK")>>
               /\ pc' = "FATAL"
               /\ exit_code' = 1
               /\ UNCHANGED <<output_path, dirs>>
        ELSE /\ api_key' = v.value
             /\ output_filename' = fn
             /\ output_path' = get_output_path(fn)
             /\ dirs' = TRUE
             /\ out' = out \o <<Line("GENERATING"), Line("OUTPUT_FILE")>>
             /\ pc' = "INPUTS_RESOLVED"
             /\ UNCHANGED exit_code
  /\ UNCHANGED <<argv, environ, backend, disk, image_prompt, image,
                 image_bytes, exc, requests, writes, file>>

(***************************************************************************)
(* generate_image, "Construct the image prompt".                           *)
(***************************************************************************)
BuildPrompt ==
  /\ pc = "INPUTS_RESOLVED"
  /\ image_prompt' = construct_image_prompt(argv.title, argv.content)
  /\ out' = out \o <<Line("PROMPT")>>
  /\ pc' = "PROMPT_BUILT"
  /\ UNCHANGED <<argv, environ, backend, disk, api_key, output_filename,
                 output_path, image, image_bytes, exc, exit_code, requests,
                 writes, dirs, file>>

(***************************************************************************)
(* generate_image: InferenceClient(token=api_key).text_to_image(...) is    *)
(* called.                                                                 *)
(***************************************************************************)
SendRequest ==
  /\ pc = "PROMPT_BUILT"
  /\ out' = out \o <<Line("CALLING")>>
  /\ requests' = Append(requests, [token |-> api_key, prompt |-> image_prompt,
                                   model |-> argv.model])
  /\ pc' = "REQUEST_SENT"
  /\ UNCHANGED <<argv, environ, backend, disk, api_key, output_filename,
                 output_path, image_prompt, image, image_bytes, exc,
                 exit_code, writes, dirs, file>>

(***************************************************************************)
(* The call returns the payload or raises.                                 *)
(***************************************************************************)
Receive ==
  /\ pc = "REQUEST_SENT"
  /\ IF backend.kind = "raise"
       THEN /\ exc' = Exception(backend.msg)
            /\ pc' = "FAULT"
            /\ UNCHANGED image
       ELSE /\ image' = backend
            /\ pc' = "RESULT_RECEIVED"
            /\ UNCHANGED exc
  /\ UNCHANGED <<argv, environ, backend, disk, api_key, output_filename,
                 output_path, image_prompt, image_bytes, out, exit_code,
                 requests, writes, dirs, file>>

(***************************************************************************)
(* generate_image, "Convert PIL Image to bytes if needed".                 *)
(***************************************************************************)
Encode ==
  /\ pc = "RESULT_RECEIVED"
  /\ LET r == ToImageBytes(image)
     IN IF r.raised
          THEN /\ exc' = r.e
               /\ pc' = "FAULT"
               /\ UNCHANGED image_bytes
          ELSE /\ image_bytes' = r.bytes
               /\ pc' = "ENCODED"
               /\ UNCHANGED exc
  /\ UNCHANGED <<argv, environ, backend, disk, api_key, output_filename,
                 output_path, image_prompt, image, out, exit_code, requests,
                 writes, dirs, file>>

(***************************************************************************)
(* generate_image, "Save the image": open(output_path, 'wb') and write.    *)
(* open may raise (the file is untouched); write may raise after open has  *)
(* truncated the file (a prefix of the bytes is left).                     *)
(***************************************************************************)
Write ==
  /\ pc = "ENCODED"
  /\ IF disk.write = "open_fault"
       THEN /\ exc' = Exception(PermissionDenied)
            /\ pc' = "FAULT"
            /\ UNCHANGED <<file, writes, out>>
     ELSE IF disk.write = "write_fault"
       THEN /\ file' = Present(Slice(image_bytes, disk.kept))
            /\ writes' = writes + 1
            /\ exc' = Exception(NoSpaceLeft)
            /\ pc' = "FAULT"
            /\ UNCHANGED out
     ELSE /\ file' = Present(image_bytes)
          /\ writes' = writes + 1
          /\ out' = out \o <<Line("SUCCESS"), Line("SAVED_TO"), Line("SIZE")>>
          /\ pc' = "WRITTEN"
          /\ UNCHANGED exc
  /\ UNCHANGED <<argv, environ, backend, disk, api_key, output_filename,
                 output_path, image_prompt, image, image_bytes, exit_code,
                 requests, dirs>>

(***************************************************************************)
(* Verify with a signature mismatch treated as an error: sys.exit(1)       *)
(* instead of the warning.                                                 *)
(***************************************************************************)
VerifyStrict ==
  /\ pc = "WRITTEN"
  /\ LET seen == IF disk.after = "vanished" THEN Absent ELSE file
     IN IF seen.exists
          THEN IF disk.after = "stat_fault"
                 THEN /\ file' = Absent
                      /\ exc' = Exception(NoSuchFile)
                      /\ pc' = "FAULT"
                      /\ UNCHANGED <<out, exit_code>>
               ELSE IF ~validate_png(image_bytes)
                 THEN /\ out' = out \o <<Line("FILE_VERIFIED"),
                                          Line("ERR_NOT_PNG")>>
                      /\ pc' = "FATAL"
                      /\ exit_code' = 1
                      /\ UNCHANGED <<file, exc>>
               ELSE /\ out' = out \o <<Line("FILE_VERIFIED")>>
                    /\ pc' = "WRITTEN_AND_VERIFIED"
                    /\ UNCHANGED <<file, exc, exit_code>>
          ELSE /\ file' = seen
               /\ out' = out \o <<Line("ERR_NOT_CREATED")>>
               /\ pc' = "FATAL"
               /\ exit_code' = 1
               /\ UNCHANGED exc
  /\ UNCHANGED <<argv, environ, backend, disk, api_key, output_filename,
                 output_path, image_prompt, image, image_bytes, requests,
                 writes, dirs>>

(***************************************************************************)
(* generate_image, "Verify the file exists".  The file may have been       *)
(* removed since the write: before exists() (the else branch, sys.exit(1)) *)
(* or between exists() and stat() (stat raises FileNotFoundError).         *)
(* sys.exit raises SystemExit inside the try block.                        *)
(***************************************************************************)
Verify ==
  /\ pc = "WRITTEN"
  /\ LET seen == IF disk.after = "vanished" THEN Absent ELSE file
     IN IF seen.exists
          THEN IF disk.after = "stat_fault"
                 THEN /\ file' = Absent
                      /\ exc' = Exception(NoSuchFile)
                      /\ pc' = "FAULT"
                      /\ UNCHANGED <<out, exit_code>>
                 ELSE /\ out' = out \o <<Line("FILE_VERIFIED")>> \o
                                 (IF ~validate_png(image_bytes)
                                    THEN <<Line("WARN_PNG")>> ELSE << >>)
                      /\ pc' = "WRITTEN_AND_VERIFIED"
                      /\ UNCHANGED <<file, exc, exit_code>>
          ELSE /\ file' = seen
               /\ out' = out \o <<Line("ERR_NOT_CREATED")>>
               /\ IF Caught(SystemExit(<<"1">>))
                    THEN /\ exc' = SystemExit(<<"1">>)
                         /\ pc' = "FAULT"
                         /\ UNCHANGED exit_code
                    ELSE /\ pc' = "FATAL"
                         /\ exit_code' = 1
                         /\ UNCHANGED exc
  /\ UNCHANGED <<argv, environ, backend, disk, api_key, output_filename,
                 output_path, image_prompt, image, image_bytes, requests,
                 writes, dirs>>

(***************************************************************************)
(* The except block without its sys.exit(1): the run falls through to the  *)
(* last print and ends with status 0.                                      *)
(***************************************************************************)
HandleFaultNoExit ==
  /\ pc = "FAULT"
  /\ out' = out \o <<[tag |-> "FAILED", text |-> exc.msg]>> \o
              [i \in 1..Len(Hint(lower(exc.msg))) |->
                 Line(Hint(lower(exc.msg))[i])] \o <<Line("COMPLETE")>>
  /\ exit_code' = 0
  /\ pc' = "DONE"
  /\ UNCHANGED <<argv, environ, backend, disk, api_key, output_filename,
                 output_path, image_prompt, image, image_bytes, exc,
                 requests, writes, dirs, file>>

(***************************************************************************)
(* The except block retrying the call once before giving up.               *)
(***************************************************************************)
HandleFaultRetry ==
  /\ pc = "FAULT"
  /\ out' = out \o <<[tag |-> "FAILED", text |-> exc.msg]>> \o
              [i \in 1..Len(Hint(lower(exc.msg))) |->
                 Line(Hint(lower(exc.msg))[i])]
  /\ IF Len(requests) < 2
       THEN /\ pc' = "PROMPT_BUILT"
            /\ UNCHANGED exit_code
       ELSE /\ pc' = "FATAL"
            /\ exit_code' = 1
  /\ UNCHANGED <<argv, environ, backend, disk, api_key, output_filename,
                 output_path, image_prompt, image, image_bytes, exc,
                 requests, writes, dirs, file>>

(***************************************************************************)
(* generate_image, the except block: the raw message, the hint of the      *)
(* matching category, sys.exit(1).                                         *)
(***************************************************************************)
HandleFault ==
  /\ pc = "FAULT"
  /\ out' = out \o <<[tag |-> "FAILED", text |-> exc.msg]>> \o
              [i \in 1..Len(Hint(lower(exc.msg))) |->
                 Line(Hint(lower(exc.msg))[i])]
  /\ exit_code' = 1
  /\ pc' = "FATAL"
  /\ UNCHANGED <<argv, environ, backend, disk, api_key, output_filename,
                 output_path, image_prompt, image, image_bytes, exc,
                 requests, writes, dirs, file>>

(***************************************************************************)
(* generate_image returns after its last print; main returns and the       *)
(* interpreter exits with status 0.                                        *)
(***************************************************************************)
Complete ==
  /\ pc = "WRITTEN_AND_VERIFIED"
  /\ out' = out \o <<Line("COMPLETE")>>
  /\ exit_code' = 0
  /\ pc' = "DONE"
  /\ UNCHANGED <<argv, environ, backend, disk, api_key, output_filename,
                 output_path, image_prompt, image, image_bytes, exc,
                 requests, writes, dirs, file>>

Next ==
  \/ main
  \/ ResolveInputs
  \/ BuildPrompt
  \/ SendRequest
  \/ Receive
  \/ Encode
  \/ Write
  \/ Verify
  \/ HandleFault
  \/ Complete

Spec == Init /\ [][Next]_vars

SpecNames == InitNames /\ [][Next]_vars

SpecTexts == InitTexts /\ [][Next]_vars

SpecMessages == InitMessages /\ [][Next]_vars

SpecPayloads == InitPayloads /\ [][Next]_vars

\* the run takes its next step as long as it has one (a sequential program)
FairSpec == Init /\ [][Next]_vars /\ WF_vars(Next)

(***************************************************************************)
(* Vocabulary of the properties.                                           *)
(***************************************************************************)
Terminated == exit_code # -1

Logged(tag) == \E i \in 1..Len(out) : out[i].tag = tag

HintsLogged ==
  {out[i].tag : i \in 1..Len(out)} \cap
    {"HINT_UNAUTHORIZED", "HINT_LOADING", "HINT_RATE_LIMIT"}

\* the resolved credential: --api-key when passed, otherwise the environment
\* variable, otherwise empty
Credential ==
  IF argv.api_key.passed THEN argv.api_key.value
  ELSE IF environ.set THEN environ.value ELSE << >>

\* needle (lower case) occurs in s, ignoring the case of s
ContainsIgnoreCase(s, needle) ==
  \E i \in 0..(Len(s) - Len(needle)) :
    \A j \in 1..Len(needle) : LowerChar(s[i + j]) = needle[j]

\* d has at least 8 bytes and they are 137 80 78 71 13 10 26 10
SignatureOK(d) ==
  /\ Len(d) >= 8
  /\ d[1] = 137 /\ d[2] = 80 /\ d[3] = 78 /\ d[4] = 71
  /\ d[5] = 13 /\ d[6] = 10 /\ d[7] = 26 /\ d[8] = 10

\* f ends in the four characters . p n g
HasPngSuffix(f) ==
  /\ Len(f) >= 4
  /\ f[Len(f) - 3] = "." /\ f[Len(f) - 2] = "p"
  /\ f[Len(f) - 1] = "n" /\ f[Len(f)] = "g"

FixedPhrases ==
  {style_prompt, PhraseScene, PhraseExamples, PhraseColorScheme,
   PhrasePalette, PhraseFocus, PhraseNoPeople, PhraseNoText, PhraseLandscape,
   TemplateIntro, TemplateAesthetic}

Phase(p) ==
  CASE p \in {"START", "ARGS_PARSED"} -> "START"
    [] p \in {"RESULT_RECEIVED", "ENCODED", "WRITTEN"} -> "RESULT_RECEIVED"
    [] p \in {"WRITTEN_AND_VERIFIED", "DONE"} -> "WRITTEN_AND_VERIFIED"
    [] OTHER -> p

PhaseEdges ==
  {<<"START", "INPUTS_RESOLVED">>, <<"START", "FATAL">>,
   <<"INPUTS_RESOLVED", "PROMPT_BUILT">>, <<"PROMPT_BUILT", "REQUEST_SENT">>,
   <<"REQUEST_SENT", "RESULT_RECEIVED">>, <<"REQUEST_SENT", "FAULT">>,
   <<"RESULT_RECEIVED", "FAULT">>, <<"RESULT_RECEIVED", "FATAL">>,
   <<"RESULT_RECEIVED", "WRITTEN_AND_VERIFIED">>, <<"FAULT", "FATAL">>}

(***************************************************************************)
(* C1: a run whose resolved credential is empty sends no request and ends  *)
(* with status 1; whenever a request has been sent, the credential (and    *)
(* the token of the request) is non-empty.                                 *)
(***************************************************************************)
C1_State ==
  /\ requests # << >> =>
       /\ Credential # << >>
       /\ \A i \in 1..Len(requests) : requests[i].token = Credential
  /\ Credential = << >> =>
       /\ requests = << >>
       /\ pc \in {"START", "ARGS_PARSED", "FATAL"}
       /\ Terminated => exit_code = 1

\* C1: C1_State holds throughout, and a run with an empty credential ends
\* with status 1 without having sent a request
C1_EmptyCredentialIsFatal ==
  /\ []C1_State
  /\ (Credential = << >>) ~> (exit_code = 1 /\ requests = << >>)

C1_Witness ==
  /\ ~argv.api_key.passed /\ environ.set /\ Credential = << >>
  /\ pc = "FATAL" /\ exit_code = 1 /\ requests = << >>
  /\ Logged("ERR_NO_TOKEN")

(***************************************************************************)
(* C2: the exit status is 0 exactly on full success (credential non-empty, *)
(* accepted payload received, no fault raised, file written and present),  *)
(* and 1 for a missing credential, for any fault raised during or after    *)
(* the call and for a file that is absent after the write.                 *)
(***************************************************************************)
FullSuccess ==
  /\ Credential # << >>
  /\ image.kind \in {"image", "bytes"}
  /\ exc = NoExc
  /\ writes = 1
  /\ file.exists

\* C2: at the end of a run the status is 0 exactly on full success, and 1
\* in each of the failure cases
C2_ExitStatus ==
  Terminated =>
    /\ exit_code \in {0, 1}
    /\ exit_code = 0 <=> FullSuccess
    /\ Credential = << >> => exit_code = 1
    /\ (requests # << >> /\ backend.kind \in {"raise", "badimage", "other"})
          => exit_code = 1
    /\ (image_bytes # << >> /\ disk.write # "ok") => exit_code = 1
    /\ (writes = 1 /\ disk.after # "present") => exit_code = 1
    /\ exc # NoExc => exit_code = 1

C2_Witness ==
  /\ pc = "DONE" /\ exit_code = 0
  /\ image.kind = "image" /\ file = Present(image_bytes)
  /\ disk.before.exists

(***************************************************************************)
(* C3 as stated: every category whose words occur in the message produces  *)
(* its hint.                                                               *)
(***************************************************************************)
IsUnauthorized(m) ==
  ContainsIgnoreCase(m, NeedleUnauthorized) \/ ContainsIgnoreCase(m, Needle401)

IsLoading(m) ==
  ContainsIgnoreCase(m, NeedleLoading) \/ ContainsIgnoreCase(m, Needle503)

IsRateLimit(m) ==
  ContainsIgnoreCase(m, NeedleRateLimit) \/ ContainsIgnoreCase(m, Needle429)

FaultHandled == pc = "FATAL" /\ exc.cls = "Exception"

RawMessageLogged ==
  \E i \in 1..Len(out) : out[i] = [tag |-> "FAILED", text |-> exc.msg]

\* C3 (as stated): each category matched by the message produces its hint
C3_EveryMatchingHint ==
  FaultHandled =>
    /\ RawMessageLogged
    /\ IsUnauthorized(exc.msg) => "HINT_UNAUTHORIZED" \in HintsLogged
    /\ IsLoading(exc.msg) => "HINT_LOADING" \in HintsLogged
    /\ IsRateLimit(exc.msg) => "HINT_RATE_LIMIT" \in HintsLogged
    /\ (~IsUnauthorized(exc.msg) /\ ~IsLoading(exc.msg)
          /\ ~IsRateLimit(exc.msg)) => HintsLogged = {}
    /\ exit_code = 1
    /\ Len(requests) <= 1

(***************************************************************************)
(* C3, amended: every fault caught at the boundary has its raw message     *)
(* logged and gets the hint of the first category that matches, in the     *)
(* order unauthorized, model-loading, rate-limit, and no other hint; a     *)
(* message matching no category gets no hint; the run then ends with       *)
(* status 1 and no second request.                                         *)
(***************************************************************************)
C3_FirstMatchingHint ==
  FaultHandled =>
    /\ RawMessageLogged
    /\ HintsLogged =
         IF IsUnauthorized(exc.msg) THEN {"HINT_UNAUTHORIZED"}
         ELSE IF IsLoading(exc.msg) THEN {"HINT_LOADING"}
         ELSE IF IsRateLimit(exc.msg) THEN {"HINT_RATE_LIMIT"}
         ELSE {}
    /\ exit_code = 1
    /\ Len(requests) <= 1

C3_Witness ==
  /\ FaultHandled
  /\ ~Contains(exc.msg, NeedleLoading)
  /\ ContainsIgnoreCase(exc.msg, NeedleLoading)
  /\ ContainsIgnoreCase(exc.msg, Needle429)
  /\ HintsLogged = {"HINT_LOADING"}

(***************************************************************************)
(* C4: when the call raises, or returns a payload that is neither an image *)
(* object nor bytes, nothing is written (the file at the output path is    *)
(* what it was before the run) and the run ends with status 1.             *)
(***************************************************************************)
BackendRefuses == backend.kind \in {"raise", "other"}

C4_State ==
  BackendRefuses =>
    /\ file = disk.before
    /\ writes = 0
    /\ pc # "DONE"
    /\ Terminated => exit_code = 1

\* C4: C4_State holds throughout, and a run whose request is refused ends
\* with status 1
C4_NoFileOnRefusal ==
  /\ []C4_State
  /\ (BackendRefuses /\ requests # << >>) ~> (pc = "FATAL" /\ exit_code = 1)

C4_Witness ==
  /\ backend.kind = "other" /\ Len(requests) = 1
  /\ pc = "FATAL" /\ exit_code = 1
  /\ disk.before.exists /\ file = disk.before
  /\ Logged("FAILED")

(***************************************************************************)
(* C5 as stated: whenever the backend has returned bytes without the PNG   *)
(* signature, the run ends with status 0, the bytes in the file and a      *)
(* warning.                                                                *)
(***************************************************************************)
BadBytesReceived == image.kind = "bytes" /\ ~SignatureOK(image.data)

C6_SignatureCheck ==
  /\ pc \in {"ENCODED", "WRITTEN"} =>
       (validate_png(image_bytes) <=> SignatureOK(image_bytes))
  /\ pc \in {"WRITTEN_AND_VERIFIED", "DONE"} =>
       (Logged("WARN_PNG") <=> ~SignatureOK(image_bytes))
  /\ (Logged("SUCCESS") /\ exc # NoExc) => disk.after = "stat_fault"

C6_Witness ==
  /\ pc = "DONE"
  /\ image_bytes = <<137, 80, 78, 71, 13, 10, 26>>
  /\ Logged("WARN_PNG")
  /\ file = Present(image_bytes)

(***************************************************************************)
(* C7: the normalized filename is the given one when that ends in ".png"   *)
(* (case-sensitive) and the given one followed by ".png" otherwise; it     *)
(* ends in ".png" and normalizing it again changes nothing.                *)
(***************************************************************************)
C7_PngExtension ==
  output_path # << >> =>
    /\ HasPngSuffix(argv.output) => output_filename = argv.output
    /\ ~HasPngSuffix(argv.output) => output_filename = argv.output \o DotPng
    /\ HasPngSuffix(output_filename)
    /\ ensure_png_extension(output_filename) = output_filename
    /\ output_path[Len(output_path)] = output_filename

C7_Witness ==
  /\ argv.output = <<"x", ".", "P", "N", "G">>
  /\ output_filename = <<"x", ".", "P", "N", "G", ".", "p", "n", "g">>
  /\ pc = "DONE"

(***************************************************************************)
(* C8: the prompt built from (title, content) contains the title, the      *)
(* content and every fixed phrase of the template, and it is the prompt    *)
(* sent with the request.                                                  *)
(***************************************************************************)
C8_PromptContents ==
  /\ pc = "PROMPT_BUILT" =>
       /\ Contains(image_prompt, argv.title)
       /\ Contains(image_prompt, argv.content)
       /\ \A phrase \in FixedPhrases : Contains(image_prompt, phrase)
       /\ Len(image_prompt) =
            Len(construct_image_prompt(<< >>, << >>))
              + Len(argv.title) + Len(argv.content)
  /\ \A i \in 1..Len(requests) : requests[i].prompt = image_prompt

C8_Witness ==
  /\ pc = "PROMPT_BUILT"
  /\ argv.title = <<"{", "}">>
  /\ argv.content = PhraseNoText
  /\ Contains(image_prompt, <<" ", "{", "}", "\n">>)

(***************************************************************************)
(* C9: the phases are passed in the order START, INPUTS_RESOLVED,          *)
(* PROMPT_BUILT, REQUEST_SENT, RESULT_RECEIVED or FAULT, then              *)
(* WRITTEN_AND_VERIFIED or FATAL (FATAL may be entered from START, and the *)
(* fault boundary after a received result); the request is sent only with  *)
(* the credential checked, the filename normalized, the path resolved and  *)
(* the directory created; at most one request is sent; the file is written *)
(* at most once and only after a result was received.                      *)
(***************************************************************************)
C9_State ==
  /\ Len(requests) <= 1
  /\ writes <= 1
  /\ requests # << >> =>
       /\ api_key # << >>
       /\ HasPngSuffix(output_filename)
       /\ output_path # << >>
       /\ dirs
       /\ image_prompt # << >>
  /\ (Credential = << >> \/ ~disk.mkdir_ok) => requests = << >>
  /\ writes > 0 => (requests # << >> /\ image.kind # "none")
  /\ file # disk.before => writes > 0

C9_Step ==
  /\ Phase(pc') # Phase(pc) => <<Phase(pc), Phase(pc')>> \in PhaseEdges
  /\ requests' # requests => (pc = "PROMPT_BUILT" /\ pc' = "REQUEST_SENT")
  /\ writes' # writes => (Phase(pc) = "RESULT_RECEIVED" /\ writes = 0)

\* C9: C9_State holds in every state and C9_Step of every step
C9_Order == []C9_State /\ [][C9_Step]_vars

C9_Witness ==
  /\ pc = "FATAL" /\ exc.cls = "Exception"
  /\ Len(requests) = 1 /\ writes = 1 /\ image.kind = "bytes"

(***************************************************************************)
(* C10: when the write raised nothing and the file is absent right after   *)
(* it, the run ends with status 1 and the "file was not created" error,    *)
(* without passing the except block: no "Failed to generate image" line,   *)
(* no hint, no PNG warning.                                                *)
(***************************************************************************)
FileVanished ==
  /\ pc \notin {"START", "ARGS_PARSED", "INPUTS_RESOLVED", "PROMPT_BUILT",
                "REQUEST_SENT", "RESULT_RECEIVED", "ENCODED", "WRITTEN"}
  /\ Logged("SUCCESS")
  /\ disk.after = "vanished"

\* C10: a file absent after a successful write ends the run with status 1
\* and the not-created error, outside the except block
C10_NotCreatedIsNotAFault ==
  /\ FileVanished =>
       /\ Logged("ERR_NOT_CREATED")
       /\ pc = "FATAL" /\ exit_code = 1
       /\ exc = NoExc
       /\ ~Logged("FAILED") /\ HintsLogged = {}
       /\ ~Logged("WARN_PNG") /\ ~Logged("FILE_VERIFIED")
  /\ Logged("ERR_NOT_CREATED") => (FileVanished /\ ~file.exists)

C10_Witness ==
  /\ Logged("ERR_NOT_CREATED") /\ pc = "FATAL" /\ exit_code = 1
  /\ image.kind = "bytes" /\ ~SignatureOK(image_bytes)
  /\ ~file.exists /\ writes = 1

====
